---- MODULE Spec2Model ----
(***************************************************************************)
(* wwislop8: conversion of a Future Composer module (magic "SMOD" or       *)
(* "FC14") into PICO-8 __sfx__ / __music__ cartridge text.                  *)
(*                                                                         *)
(* The model follows src/wwislop8/wwislop8.py: the input file is a         *)
(* sequence of bytes, the constructor decodes it, convert_sequences and    *)
(* convert_patterns translate it, and the module-level code prints the     *)
(* cartridge.  Python's print() writes to standard output; an uncaught     *)
(* exception writes its last traceback line to standard error and ends     *)
(* the run.                                                                *)
(***************************************************************************)
EXTENDS Integers, Sequences, FiniteSets, TLC

VARIABLES
    pc,               \* position of the run in the module-level script
    contents,         \* self.contents: the bytes of the input file
    args,             \* the parsed command line: start, end, speed, transpose
    magic,            \* self.magic
    header,           \* the big-endian header fields and sequence_offset
    samples,          \* self.samples
    sequences,        \* self.sequences: the decoded in-window sequences
    used_patterns,    \* self.used_patterns
    pico8_sequences,  \* the value returned by convert_sequences
    pico8_patterns,   \* the value returned by convert_patterns
    stdout,           \* the lines written by print()
    stderr            \* the lines written by the interpreter when the run dies

vars == <<pc, contents, args, magic, header, samples, sequences, used_patterns,
          pico8_sequences, pico8_patterns, stdout, stderr>>

(***************************************************************************)
(* Python values                                                           *)
(***************************************************************************)
\* None and a present value: a list slot holding None is <<>>, one holding x is <<x>>.
None == <<>>
Some(x) == <<x>>

Min(a, b) == IF a < b THEN a ELSE b

\* bytes[a:b] for 0 <= a: the slice stops at the end of the buffer without error.
Slice(b, lo, hi) ==
    IF lo >= Min(hi, Len(b)) THEN <<>> ELSE SubSeq(b, lo + 1, Min(hi, Len(b)))

\* bytes[a:]
SliceFrom(b, lo) == Slice(b, lo, Len(b))

\* int.from_bytes(b, byteorder='big'); the empty slice gives 0.
RECURSIVE FromBytesBig(_)
FromBytesBig(b) ==
    IF Len(b) = 0 THEN 0
    ELSE FromBytesBig(SubSeq(b, 1, Len(b) - 1)) * 256 + b[Len(b)]

\* The digits of "%x" and "%d".
HexDigits == <<"0","1","2","3","4","5","6","7","8","9","a","b","c","d","e","f">>

RECURSIVE HexStr(_)
HexStr(n) == IF n < 16 THEN HexDigits[n + 1]
             ELSE HexStr(n \div 16) \o HexDigits[(n % 16) + 1]

RECURSIVE DecNat(_)
DecNat(n) == IF n < 10 THEN HexDigits[n + 1]
             ELSE DecNat(n \div 10) \o HexDigits[(n % 10) + 1]

\* "%d" % n
FormatD(n) == IF n < 0 THEN "-" \o DecNat(0 - n) ELSE DecNat(n)

\* "%02x" % n: zero-padded to two characters, the sign counting as one.
Format02x(n) ==
    IF n < 0 THEN "-" \o HexStr(0 - n)
    ELSE IF n < 16 THEN "0" \o HexStr(n)
    ELSE HexStr(n)

(***************************************************************************)
(* Messages                                                                *)
(***************************************************************************)
WarnTooManyPatterns == "Warning: the number of unique patterns exceeds 64"
WarnNoteAbove(pat_num) ==
    "Warning: found note above D#5 in pattern " \o FormatD(pat_num) \o "; clamping"
WarnNoteBelow(pat_num) ==
    "Warning: found note below C0 in pattern " \o FormatD(pat_num) \o "; clamping"

\* The last line of the traceback of an uncaught exception.
StructError == "struct.error: unpack requires a buffer of 4 bytes"
NameErrorMagic == "NameError: name 'magic' is not defined"
IndexErrorBytes == "IndexError: index out of range"

MagicSMOD == <<83, 77, 79, 68>>
MagicFC14 == <<70, 67, 49, 52>>

(***************************************************************************)
(* Decoding (FutureComposerModule.__init__)                                *)
(***************************************************************************)
SequenceRecordSize == 13
PatternBlockSize == 64
RowsPerPattern == 32
NumSamples == 10
MaxPico8Patterns == 64

\* FutureComposerModule.Sample
Sample(data) ==
    [length      |-> FromBytesBig(Slice(data, 0, 2)),
     loop_start  |-> FromBytesBig(Slice(data, 2, 4)),
     loop_length |-> FromBytesBig(Slice(data, 4, 6))]

\* FutureComposerModule.Voice.__init__ reads data[0], data[1] and data[2]: a
\* shorter slice raises IndexError.
VoiceRaises(data) == Len(data) < 3

Voice(num, data) ==
    [num |-> num, pattern |-> data[1], transpose |-> data[2],
     sound_transpose |-> data[3]]

\* FutureComposerModule.Voice.hash
VoiceHashWithNum(v) == v.num + v.transpose * 256 + v.sound_transpose * 65536
VoiceHash(v) == v.pattern + v.transpose * 256 + v.sound_transpose * 65536

\* FutureComposerModule.Sequence.__init__: four voices, then data[12].
SequenceRaises(data) ==
    \/ VoiceRaises(data)
    \/ VoiceRaises(SliceFrom(data, 3))
    \/ VoiceRaises(SliceFrom(data, 6))
    \/ VoiceRaises(SliceFrom(data, 9))
    \/ Len(data) < 13

Sequence(data) ==
    [voices |-> <<Voice(0, data), Voice(1, SliceFrom(data, 3)),
                  Voice(2, SliceFrom(data, 6)), Voice(3, SliceFrom(data, 9))>>,
     speed |-> data[13]]

\* The header fields read at lines 108-121.
DecodeHeader(buf, tag) ==
    [sequence_data_size |-> FromBytesBig(Slice(buf, 4, 8)),
     pattern_offset     |-> FromBytesBig(Slice(buf, 8, 12)),
     pattern_data_size  |-> FromBytesBig(Slice(buf, 12, 16)),
     freqmod_offset     |-> FromBytesBig(Slice(buf, 16, 20)),
     freqmod_data_size  |-> FromBytesBig(Slice(buf, 20, 24)),
     volume_offset      |-> FromBytesBig(Slice(buf, 24, 28)),
     volume_data_size   |-> FromBytesBig(Slice(buf, 28, 32)),
     sample_offset      |-> FromBytesBig(Slice(buf, 32, 36)),
     \* wavetable_offset for FC14, sample_data_size for SMOD
     field_36           |-> FromBytesBig(Slice(buf, 36, 40)),
     sequence_offset    |-> IF tag = MagicFC14 THEN 180 ELSE 100]

DecodeSamples(buf) ==
    [i \in 1..NumSamples |-> Sample(SliceFrom(buf, 40 + (i - 1) * 6))]

\* The window test of line 130.
InWindowStrictEnd(i, start, end) == i >= start /\ (i < end \/ end = -1)
InWindow(i, start, end) == i >= start /\ (i <= end \/ end = -1)

\* One pass of the loop body of lines 130-131, for index i; st holds the sequences
\* decoded so far and whether Sequence() has raised, which ends the loop.
DecodeSequenceAt(buf, hdr, a, i, st) ==
    IF st.raised \/ ~InWindow(i, a.start, a.end) THEN st
    ELSE LET data == SliceFrom(buf, hdr.sequence_offset + i * SequenceRecordSize)
         IN  IF SequenceRaises(data) THEN [st EXCEPT !.raised = TRUE]
             ELSE [st EXCEPT !.seqs = Append(st.seqs, Sequence(data))]

\* The loop of lines 129-131 over the indices lo..hi, in increasing order (the
\* range is halved so that the evaluation stays shallow).
RECURSIVE DecodeSequenceRange(_, _, _, _, _, _)
DecodeSequenceRange(buf, hdr, a, lo, hi, st) ==
    IF st.raised \/ lo > hi THEN st
    ELSE IF lo = hi THEN DecodeSequenceAt(buf, hdr, a, lo, st)
    ELSE LET mid == (lo + hi) \div 2
             left == DecodeSequenceRange(buf, hdr, a, lo, mid, st)
         IN  DecodeSequenceRange(buf, hdr, a, mid + 1, hi, left)

DecodeSequences(buf, hdr, a, num_sequences) ==
    DecodeSequenceRange(buf, hdr, a, 0, num_sequences - 1,
                        [raised |-> FALSE, seqs |-> <<>>])

Range(s) == {s[i] : i \in DOMAIN s}

\* Lines 137-138.
AppendAlways(used, h) == Append(used, h)
AppendIfAbsent(used, h) == IF h \in Range(used) THEN used ELSE Append(used, h)

\* Lines 135-138: the four voices of one sequence.
CollectSequence(sequence, used) ==
    LET u1 == AppendIfAbsent(used, VoiceHash(sequence.voices[1]))
        u2 == AppendIfAbsent(u1, VoiceHash(sequence.voices[2]))
        u3 == AppendIfAbsent(u2, VoiceHash(sequence.voices[3]))
    IN  AppendIfAbsent(u3, VoiceHash(sequence.voices[4]))

\* Lines 134-138 over the sequences lo..hi, in order.  (The test on the list
\* collected from the first half makes TLC evaluate it before the second half.)
RECURSIVE CollectRange(_, _, _, _)
CollectRange(seqs, lo, hi, used) ==
    IF lo > hi THEN used
    ELSE IF lo = hi THEN CollectSequence(seqs[lo], used)
    ELSE LET mid == (lo + hi) \div 2
             left == CollectRange(seqs, lo, mid, used)
         IN  IF Len(left) = 0 THEN CollectRange(seqs, mid + 1, hi, <<>>)
             ELSE CollectRange(seqs, mid + 1, hi, left)

\* Lines 133-138.
CollectUsed(seqs) == CollectRange(seqs, 1, Len(seqs), <<>>)

\* Lines 139-140.
OverflowWarningsLate(used) ==
    IF Len(used) > MaxPico8Patterns + 1 THEN <<WarnTooManyPatterns>> ELSE <<>>
OverflowWarnings(used) ==
    IF Len(used) > MaxPico8Patterns THEN <<WarnTooManyPatterns>> ELSE <<>>

(***************************************************************************)
(* Translation (convert_patterns, convert_sequences)                       *)
(***************************************************************************)
\* Lines 150-151: the transpose byte read as a signed byte.
SignedByte(b) == IF b >= 128 THEN b - 256 ELSE b

\* Lines 156-163: the note of a populated row and the warnings printed for it.
ConvertNoteLooseUpper(note, pat_transpose, transpose, pat_num) ==
    LET n == note + 24 + pat_transpose + transpose
    IN  IF n > 64 THEN [note |-> 63, out |-> <<WarnNoteAbove(pat_num)>>]
        ELSE IF n < 0 THEN [note |-> 0, out |-> <<WarnNoteBelow(pat_num)>>]
        ELSE [note |-> n, out |-> <<>>]
ConvertNote(note, pat_transpose, transpose, pat_num) ==
    LET n == note + 24 + pat_transpose + transpose
    IN  IF n > 63 THEN [note |-> 63, out |-> <<WarnNoteAbove(pat_num)>>]
        ELSE IF n < 0 THEN [note |-> 0, out |-> <<WarnNoteBelow(pat_num)>>]
        ELSE [note |-> n, out |-> <<>>]

\* PICO8Pattern.Row
Row(note, instrument, volume, effect) ==
    [note |-> note, instrument |-> instrument, volume |-> volume, effect |-> effect]

\* PICO8Pattern.__init__
EmptyRows == [r \in 1..RowsPerPattern |-> None]

\* The loop body of lines 153-165 for one row; st holds the rows set so far, the
\* warnings printed so far and whether an index has raised, which ends the loop.
\* pattern[row*2] and pattern[row*2 + 1] raise IndexError past the end of the
\* (possibly short) slice.
ConvertRow(pattern, pat_num, pat_transpose, transpose, row, st) ==
    IF st.raised THEN st
    ELSE IF row * 2 >= Len(pattern) THEN [st EXCEPT !.raised = TRUE]
    ELSE LET note == pattern[row * 2 + 1]
         IN  IF note > 0
             THEN IF row * 2 + 1 >= Len(pattern) THEN [st EXCEPT !.raised = TRUE]
                  ELSE LET info == pattern[row * 2 + 2]
                           c == ConvertNote(note, pat_transpose, transpose, pat_num)
                           instrument == info % 8
                       IN  [st EXCEPT !.rows[row + 1] = Some(Row(c.note, instrument, 4, 0)),
                                      !.out = st.out \o c.out]
             ELSE st

\* The loop of line 152 over the rows lo..hi, in order.
RECURSIVE ConvertRowRange(_, _, _, _, _, _, _)
ConvertRowRange(pattern, pat_num, pat_transpose, transpose, lo, hi, st) ==
    IF st.raised \/ lo > hi THEN st
    ELSE IF lo = hi THEN ConvertRow(pattern, pat_num, pat_transpose, transpose, lo, st)
    ELSE LET mid == (lo + hi) \div 2
             left == ConvertRowRange(pattern, pat_num, pat_transpose, transpose,
                                     lo, mid, st)
         IN  ConvertRowRange(pattern, pat_num, pat_transpose, transpose,
                             mid + 1, hi, left)

\* Lines 145-166: one entry of used_patterns.
ConvertPattern(buf, hdr, a, used_pattern) ==
    LET pat_num == used_pattern % 256
        pat_transpose == (used_pattern \div 256) % 256
        offset == hdr.pattern_offset + pat_num * PatternBlockSize
        pattern == Slice(buf, offset, offset + PatternBlockSize)
        r == ConvertRowRange(pattern, pat_num, SignedByte(pat_transpose), a.transpose,
                             0, RowsPerPattern - 1,
                             [raised |-> FALSE, rows |-> EmptyRows, out |-> <<>>])
    IN  [raised |-> r.raised, out |-> r.out,
         pattern |-> [rows |-> r.rows, speed |-> a.speed]]

\* The loop of line 144 over the entries lo..hi, in order; st holds the patterns
\* appended so far, the warnings printed so far and whether a pattern has raised.
RECURSIVE ConvertPatternRange(_, _, _, _, _, _, _)
ConvertPatternRange(buf, hdr, a, used, lo, hi, st) ==
    IF st.raised \/ lo > hi THEN st
    ELSE IF lo = hi
         THEN LET c == ConvertPattern(buf, hdr, a, used[lo])
              IN  [raised |-> c.raised,
                   patterns |-> IF c.raised THEN st.patterns
                                ELSE Append(st.patterns, c.pattern),
                   out |-> st.out \o c.out]
    ELSE LET mid == (lo + hi) \div 2
             left == ConvertPatternRange(buf, hdr, a, used, lo, mid, st)
         IN  ConvertPatternRange(buf, hdr, a, used, mid + 1, hi, left)

\* convert_patterns
ConvertPatterns(buf, hdr, a, used) ==
    ConvertPatternRange(buf, hdr, a, used, 1, Len(used),
                        [raised |-> FALSE, patterns |-> <<>>, out |-> <<>>])

\* list.index(x) for an x in the list: the 0-based position of the first match.
ListIndexOneBased(l, x) == CHOOSE i \in 1..Len(l) : l[i] = x /\ \A j \in 1..(i - 1) : l[j] # x
ListIndex(l, x) == (CHOOSE i \in 1..Len(l) : l[i] = x /\ \A j \in 1..(i - 1) : l[j] # x) - 1

\* Lines 174-177: what convert_sequences leaves in the channel of one voice.
ChannelOfAlways(used, v) == Some(ListIndex(used, VoiceHash(v)))
ChannelOf(used, v) ==
    LET hash == VoiceHash(v)
        pat_num == hash % 256
    IN  IF pat_num > 0 THEN Some(ListIndex(used, hash)) ELSE None

\* PICO8Sequence.set
SetChannel(pico8_sequence, channel, pattern_to_play) ==
    [pico8_sequence EXCEPT !.channels[channel + 1] = Some(pattern_to_play)]

\* Lines 172-178: PICO8Sequence() and a set() at channel voice.num for each voice
\* that passes the test of line 176, from voice v on.
RECURSIVE ConvertVoices(_, _, _, _)
ConvertVoices(used, sequence, v, pico8_sequence) ==
    IF v > Len(sequence.voices) THEN pico8_sequence
    ELSE LET voice == sequence.voices[v]
             slot == ChannelOf(used, voice)
         IN  ConvertVoices(used, sequence, v + 1,
                           IF slot = None THEN pico8_sequence
                           ELSE SetChannel(pico8_sequence, voice.num, slot[1]))

ConvertSequence(used, sequence) ==
    ConvertVoices(used, sequence, 1, [channels |-> [c \in 1..4 |-> None]])

\* convert_sequences
ConvertSequences(used, seqs) == [s \in 1..Len(seqs) |-> ConvertSequence(used, seqs[s])]

(***************************************************************************)
(* Formatting (PICO8Pattern.format, PICO8Sequence.format, PICO8Song.output) *)
(***************************************************************************)
\* PICO8Pattern.Row.format, and the "00000" of a row that was never set.
RowFormat(slot) ==
    IF slot = None THEN "00000"
    ELSE LET row == slot[1]
         IN  Format02x(row.note) \o FormatD(row.instrument)
                \o FormatD(row.volume) \o FormatD(row.effect)

\* The reduce of lines 38-40 over the rows lo..hi.
RECURSIVE RowsFormat(_, _, _)
RowsFormat(rows, lo, hi) ==
    IF lo > hi THEN ""
    ELSE IF lo = hi THEN RowFormat(rows[lo])
    ELSE LET mid == (lo + hi) \div 2
         IN  RowsFormat(rows, lo, mid) \o RowsFormat(rows, mid + 1, hi)

\* PICO8Pattern.format
PatternFormat(p) ==
    "01" \o Format02x(p.speed) \o "0000" \o RowsFormat(p.rows, 1, Len(p.rows))

\* PICO8Sequence.format
ChannelFormat(slot, i) ==
    IF slot # None THEN Format02x(slot[1]) ELSE Format02x(64 + i + 1)

SequenceFormat(s) ==
    "00 " \o ChannelFormat(s.channels[1], 0) \o ChannelFormat(s.channels[2], 1)
          \o ChannelFormat(s.channels[3], 2) \o ChannelFormat(s.channels[4], 3)

\* PICO8Song.output
SongOutput(seqs, pats) ==
    <<"__sfx__">> \o [k \in 1..Len(pats) |-> PatternFormat(pats[k])]
        \o <<"__music__">> \o [k \in 1..Len(seqs) |-> SequenceFormat(seqs[k])]

\* Lines 193-197.
GfxLine == "00000000000000000000000000000000000000000000000000000000000000000000000000000000000000000000000000000000000000000000000000000000"
CartridgeHeader ==
    <<"pico-8 cartridge // http://www.pico-8.com", "version 42", "__gfx__">>
        \o [i \in 1..6 |-> GfxLine]

(***************************************************************************)
(* Input files and command lines                                           *)
(***************************************************************************)
MaxSeqs == 2      \* sequences of the small modules
BigSeqs == 17     \* sequences of the large modules

Big32(n) == <<(n \div 16777216) % 256, (n \div 65536) % 256, (n \div 256) % 256, n % 256>>
Zeros(n) == [i \in 1..n |-> 0]

RECURSIVE FlattenRange(_, _, _)
FlattenRange(ss, lo, hi) ==
    IF lo > hi THEN <<>>
    ELSE IF lo = hi THEN ss[lo]
    ELSE LET mid == (lo + hi) \div 2
         IN  FlattenRange(ss, lo, mid) \o FlattenRange(ss, mid + 1, hi)
Flatten(ss) == FlattenRange(ss, 1, Len(ss))

\* A 13-byte sequence record: four (pattern, transpose, sound transpose) voices
\* and the speed byte.
SeqRecord(vs) == vs[1] \o vs[2] \o vs[3] \o vs[4] \o <<3>>

\* A 64-byte pattern block.  Dense blocks cycle through note bytes around both
\* clamping bounds; sparse blocks hold two notes.
NoteBytes == <<0, 1, 36, 39, 40, 0, 15, 255>>
PatternBlock(k, dense) ==
    [b \in 1..PatternBlockSize |->
        LET r == (b - 1) \div 2
        IN  IF b % 2 = 1
            THEN IF dense THEN NoteBytes[((r + k) % Len(NoteBytes)) + 1]
                 ELSE IF r = 0 THEN 36 ELSE IF r = 31 THEN 39 ELSE 0
            ELSE (r * 37 + k * 11) % 256]
PatternTable(dense) == PatternBlock(0, dense) \o PatternBlock(1, dense) \o PatternBlock(2, dense)

SeqOffsetOf(tag) == IF tag = MagicFC14 THEN 180 ELSE 100

\* A module file: header, sample table, sequence table, pattern table.  The
\* size and offset fields are parameters, so they need not be truthful.
ModuleFile(tag, seq_size, pat_offset, seqs, pats) ==
    tag \o Big32(seq_size) \o Big32(pat_offset) \o Big32(Len(pats)) \o Zeros(24)
        \o [i \in 1..(SeqOffsetOf(tag) - 40) |-> i % 7]
        \o Flatten([i \in 1..Len(seqs) |-> SeqRecord(seqs[i])]) \o pats

\* A well-formed module.
GoodFile(tag, seqs, dense) ==
    ModuleFile(tag, Len(seqs) * SequenceRecordSize,
               SeqOffsetOf(tag) + Len(seqs) * SequenceRecordSize, seqs,
               PatternTable(dense))

DefaultArgs == [start |-> 0, end |-> -1, speed |-> 10, transpose |-> 0]
Input(buf, a) == [contents |-> buf, args |-> a]

VA == <<0, 0, 0>>
VB == <<1, 0, 0>>
VC == <<1, 244, 0>>
VD == <<1, 0, 1>>
VE == <<2, 12, 0>>
VF == <<0, 5, 0>>
VG == <<2, 128, 0>>
Tags == {MagicSMOD, MagicFC14}
BadTags == {<<88, 88, 88, 88>>, <<83, 77, 79, 69>>, <<0, 0, 0, 0>>}

HeadSeqs == {<<a, b, c, d>> : a \in {VF, VB, VC}, b \in {VF, VB, VC},
                              c \in {VF, VB, VC}, d \in {VF, VB, VC}}
TailSeqs == {<<VB, VB, VB, VB>>, <<VD, VA, VE, VB>>, <<VF, VC, VA, VD>>,
             <<VE, VG, VF, VB>>}

\* Lists of at most MaxSeqs sequences: any voices in the first, a few later ones.
RECURSIVE SeqLists(_)
SeqLists(n) ==
    IF n = 0 THEN {<<>>}
    ELSE IF n = 1 THEN {<<h>> : h \in HeadSeqs}
    ELSE {Append(l, t) : l \in SeqLists(n - 1), t \in TailSeqs}

DedupInputs ==
    {Input(GoodFile(tag, l, TRUE), DefaultArgs) :
        tag \in Tags, l \in UNION {SeqLists(n) : n \in 0..MaxSeqs}}

\* Windows over MaxSeqs + 1 distinct sequences, with size fields that are exact,
\* not a multiple of 13, zero, or larger than the table.
WindowSeq(i) == <<<<1 + (i % 2), i, 0>>, VB, <<2, 0, i>>, VA>>
WindowSeqs == [i \in 1..(MaxSeqs + 1) |-> WindowSeq(i - 1)]
WindowInputs ==
    LET n == MaxSeqs + 1
    IN  {Input(ModuleFile(tag, size, SeqOffsetOf(tag) + n * SequenceRecordSize,
                          WindowSeqs, PatternTable(FALSE)),
               [DefaultArgs EXCEPT !.start = st, !.end = en]) :
            tag \in Tags,
            size \in {0, n * SequenceRecordSize - 1, n * SequenceRecordSize,
                      n * SequenceRecordSize + 12, (n + 2) * SequenceRecordSize},
            st \in {-1, 0, 1, n - 1, n + 1},
            en \in {-2, -1, 0, 1, n - 1, n + 3}}

\* Transposes and speeds.
NoteInputs ==
    {Input(GoodFile(tag, <<vs>>, dense),
           [DefaultArgs EXCEPT !.transpose = tr, !.speed = sp]) :
        tag \in Tags,
        vs \in {<<VB, VC, VG, <<1, 12, 0>>>>, <<<<1, 127, 0>>, <<2, 0, 0>>, VA, <<2, 255, 0>>>>},
        dense \in BOOLEAN,
        tr \in {-26, -25, 0, 12},
        sp \in {10, 1, 255, -1}}

\* Every prefix of a well-formed module, and pattern offsets past the end.
TruncatedInputs ==
    LET full(tag) == GoodFile(tag, <<<<VB, VC, VA, VE>>>>, FALSE)
    IN  {Input(Slice(full(tag), 0, n), DefaultArgs) :
            tag \in Tags, n \in 0..Len(full(MagicFC14))}
        \cup
        {Input(ModuleFile(tag, SequenceRecordSize, off, <<<<VB, VC, VA, VE>>>>,
                          PatternTable(FALSE)), DefaultArgs) :
            tag \in Tags, off \in {250, 400, 16777216}}

\* Unrecognized tags.
BadTagInputs ==
    {Input(GoodFile(tag, l, TRUE), DefaultArgs) :
        tag \in BadTags, l \in {<<>>, <<<<VB, VC, VA, VE>>>>}}
    \cup {Input(tag, DefaultArgs) : tag \in BadTags}

\* BigSeqs sequences whose voices all differ, up to a cap on the number of
\* distinct voices: 64, 65 or 4 * BigSeqs distinct dedup keys; the file is whole
\* or lacks the end of its pattern table.
BigVoice(j) == <<1, j % 256, j \div 256>>
BigSeqList(cap) ==
    [i \in 1..BigSeqs |->
        [c \in 1..4 |-> BigVoice(Min(4 * (i - 1) + (c - 1), cap - 1))]]
BigInputs ==
    LET file(cap) == GoodFile(MagicSMOD, BigSeqList(cap), FALSE)
    IN  {Input(Slice(file(cap), 0, Len(file(cap)) - cut),
               [DefaultArgs EXCEPT !.transpose = -40]) :
            cap \in {MaxPico8Patterns, MaxPico8Patterns + 1, 4 * BigSeqs},
            cut \in {0, 100}}

Inputs == DedupInputs \cup WindowInputs \cup NoteInputs \cup TruncatedInputs
            \cup BadTagInputs \cup BigInputs

(***************************************************************************)
(* The run                                                                 *)
(***************************************************************************)
Init ==
    \E inp \in Inputs :
        /\ contents = inp.contents
        /\ args = inp.args
        /\ pc = "construct"
        /\ magic = None
        /\ header = None
        /\ samples = <<>>
        /\ sequences = <<>>
        /\ used_patterns = <<>>
        /\ pico8_sequences = <<>>
        /\ pico8_patterns = <<>>
        /\ stdout = <<>>
        /\ stderr = <<>>

\* An uncaught exception: the traceback goes to standard error and the run ends.
Die(line) ==
    /\ pc' = "aborted"
    /\ stderr' = Append(stderr, line)

\* module = FutureComposerModule(args), line 190.
Construct ==
    /\ pc = "construct"
    /\ UNCHANGED <<contents, args, pico8_sequences, pico8_patterns>>
    /\ IF Len(contents) < 4
       THEN \* struct.unpack('4s', ...) of a shorter slice
            /\ Die(StructError)
            /\ UNCHANGED <<magic, header, samples, sequences, used_patterns, stdout>>
       ELSE LET tag == Slice(contents, 0, 4)
            IN  IF tag # MagicSMOD /\ tag # MagicFC14
                THEN \* line 106 evaluates the name magic, which is not defined
                     /\ magic' = tag
                     /\ Die(NameErrorMagic)
                     /\ UNCHANGED <<header, samples, sequences, used_patterns, stdout>>
                ELSE LET hdr == DecodeHeader(contents, tag)
                         num_sequences == hdr.sequence_data_size \div SequenceRecordSize
                         d == DecodeSequences(contents, hdr, args, num_sequences)
                         used == CollectUsed(d.seqs)
                     IN  /\ magic' = tag
                         /\ header' = hdr
                         /\ samples' = DecodeSamples(contents)
                         /\ sequences' = d.seqs
                         /\ IF d.raised
                            THEN /\ Die(IndexErrorBytes)
                                 /\ UNCHANGED <<used_patterns, stdout>>
                            ELSE /\ used_patterns' = used
                                 /\ stdout' = stdout \o OverflowWarnings(used)
                                 /\ pc' = "convert_sequences"
                                 /\ UNCHANGED stderr

\* module.convert_sequences(), the first argument of line 191.
ConvertSequencesStep ==
    /\ pc = "convert_sequences"
    /\ pico8_sequences' = ConvertSequences(used_patterns, sequences)
    /\ pc' = "convert_patterns"
    /\ UNCHANGED <<contents, args, magic, header, samples, sequences, used_patterns,
                   pico8_patterns, stdout, stderr>>

\* module.convert_patterns(), the second argument of line 191.  The warnings
\* printed before an IndexError stay printed.
ConvertPatternsStep ==
    /\ pc = "convert_patterns"
    /\ LET r == ConvertPatterns(contents, header, args, used_patterns)
       IN  /\ stdout' = stdout \o r.out
           /\ IF r.raised
              THEN /\ Die(IndexErrorBytes)
                   /\ UNCHANGED pico8_patterns
              ELSE /\ pico8_patterns' = r.patterns
                   /\ pc' = "print_header"
                   /\ UNCHANGED stderr
    /\ UNCHANGED <<contents, args, magic, header, samples, sequences, used_patterns,
                   pico8_sequences>>

\* Lines 193-197.
PrintCartridgeHeader ==
    /\ pc = "print_header"
    /\ stdout' = stdout \o CartridgeHeader
    /\ pc' = "output"
    /\ UNCHANGED <<contents, args, magic, header, samples, sequences, used_patterns,
                   pico8_sequences, pico8_patterns, stderr>>

\* pico8_song.output(), line 199.
Output ==
    /\ pc = "output"
    /\ stdout' = stdout \o SongOutput(pico8_sequences, pico8_patterns)
    /\ pc' = "done"
    /\ UNCHANGED <<contents, args, magic, header, samples, sequences, used_patterns,
                   pico8_sequences, pico8_patterns, stderr>>

Next ==
    \/ Construct
    \/ ConvertSequencesStep
    \/ ConvertPatternsStep
    \/ PrintCartridgeHeader
    \/ Output

Spec == Init /\ [][Next]_vars

(***************************************************************************)
(* Properties                                                              *)
(***************************************************************************)
\* The constructor has returned.
Constructed == pc \in {"convert_sequences", "convert_patterns", "print_header", "output", "done"}
\* convert_sequences has returned.
SequencesConverted == pc \in {"convert_patterns", "print_header", "output", "done"}
\* convert_patterns has returned.
PatternsConverted == pc \in {"print_header", "output", "done"}

\* The (pattern-number, note-transpose, instrument-transpose) triple of voice v
\* of in-scope sequence s.
Triple(s, v) ==
    LET voice == sequences[s].voices[v]
    IN  <<voice.pattern, voice.transpose, voice.sound_transpose>>

\* The dedup key of a triple, as section 3 of the specification defines it.
KeyOf(t) == t[1] + 256 * t[2] + 65536 * t[3]

\* The channel slot convert_sequences left for voice v of in-scope sequence s.
Slot(s, v) == pico8_sequences[s].channels[sequences[s].voices[v].num + 1]

\* The lines of the finished cartridge text: pattern lines stand between
\* "__sfx__" and "__music__", sequence lines after "__music__".
SfxAt == CHOOSE i \in 1..Len(stdout) : stdout[i] = "__sfx__"
MusicAt == CHOOSE i \in 1..Len(stdout) : stdout[i] = "__music__"
PatternLines == SubSeq(stdout, SfxAt + 1, MusicAt - 1)
SequenceLines == SubSeq(stdout, MusicAt + 1, Len(stdout))

IsWarning(line) == Len(line) >= 8 /\ SubSeq(line, 1, 8) = "Warning:"

\* C1: any two in-scope voices with the same (pattern-number, note-transpose,
\* instrument-transpose) triple are given the same converted pattern index by
\* convert_sequences, whatever their sequences and channels.
C1_SameTripleSameIndex ==
    SequencesConverted =>
        /\ Len(pico8_sequences) = Len(sequences)
        /\ \A s1 \in 1..Len(sequences), s2 \in 1..Len(sequences) :
             \A v1 \in 1..4, v2 \in 1..4 :
                Triple(s1, v1) = Triple(s2, v2) => Slot(s1, v1) = Slot(s2, v2)

\* Two voices of different sequences and different channels share a triple and
\* an index, while another voice got another index.
C1_Witness ==
    /\ pc = "done"
    /\ \E s1 \in 1..Len(sequences), s2 \in 1..Len(sequences) :
         \E v1 \in 1..4, v2 \in 1..4, v3 \in 1..4 :
            /\ s1 # s2 /\ v1 # v2
            /\ Triple(s1, v1) = Triple(s2, v2)
            /\ Slot(s1, v1) # None
            /\ Slot(s1, v1) = Slot(s2, v2)
            /\ Slot(s1, v3) # None
            /\ Slot(s1, v3) # Slot(s1, v1)

\* The two characters of a disabled channel 0..3: 0x40 + channel + 1 in hex.
DisabledCode == <<"41", "42", "43", "44">>
\* The characters of channel v in the line of in-scope sequence s.
ChannelCode(s, v) ==
    IF Triple(s, v)[1] = 0 THEN DisabledCode[v]
    ELSE Format02x(pico8_sequences[s].channels[v][1])
\* C2: a voice whose pattern-number is 0 leaves its channel disabled, whatever
\* its transposes and the position of its key in used_patterns, and the sequence
\* line shows that channel as 41, 42, 43 or 44 (0x40 + channel + 1).
C2_PatternZeroDisabled ==
    /\ SequencesConverted =>
         \A s \in 1..Len(sequences) : \A v \in 1..4 :
            /\ sequences[s].voices[v].num = v - 1
            /\ Triple(s, v)[1] = 0 <=> pico8_sequences[s].channels[v] = None
    /\ pc = "done" =>
         /\ Len(SequenceLines) = Len(sequences)
         /\ \A s \in 1..Len(sequences) :
              SequenceLines[s] = "00 " \o ChannelCode(s, 1) \o ChannelCode(s, 2)
                                       \o ChannelCode(s, 3) \o ChannelCode(s, 4)

\* A pattern-0 voice with a nonzero transpose whose key is the first entry of
\* used_patterns, next to an enabled channel, in a finished run.
C2_Witness ==
    /\ pc = "done"
    /\ Len(sequences) > 0
    /\ Triple(1, 1)[1] = 0 /\ Triple(1, 1)[2] # 0
    /\ used_patterns[1] = KeyOf(Triple(1, 1))
    /\ pico8_sequences[1].channels[1] = None
    /\ pico8_sequences[1].channels[2] # None
    /\ SubSeq(SequenceLines[1], 4, 5) = "41"

\* The source bytes of row r (0..31) of the pattern block of used_patterns[k].
SourcePatNum(k) == used_patterns[k] % 256
SourceNote(k, r) == contents[header.pattern_offset + SourcePatNum(k) * 64 + 2 * r + 1]
\* The note-transpose byte of used_patterns[k], as a signed number.
SourceTranspose(k) ==
    LET b == (used_patterns[k] \div 256) % 256
    IN  IF b >= 128 THEN b - 256 ELSE b
\* N + 24 + signed(note-transpose) + global transpose.
TargetNote(k, r) == SourceNote(k, r) + 24 + SourceTranspose(k) + args.transpose

\* C3: for a nonzero source note byte the stored note is within [0, 63]: the sum
\* N + 24 + signed(note-transpose) + global transpose when that is in range, 63
\* above it and 0 below it, each clamping with a warning that names the source
\* pattern number.
C3_NoteClamped ==
    PatternsConverted =>
        /\ Len(pico8_patterns) = Len(used_patterns)
        /\ \A k \in 1..Len(used_patterns) : \A r \in 0..31 :
             SourceNote(k, r) # 0 =>
                LET slot == pico8_patterns[k].rows[r + 1]
                    t == TargetNote(k, r)
                IN  /\ slot # None
                    /\ slot[1].note \in 0..63
                    /\ (t \in 0..63 => slot[1].note = t)
                    /\ (t > 63 => /\ slot[1].note = 63
                                  /\ \E i \in 1..Len(stdout) :
                                       stdout[i] = WarnNoteAbove(SourcePatNum(k)))
                    /\ (t < 0 => /\ slot[1].note = 0
                                 /\ \E i \in 1..Len(stdout) :
                                      stdout[i] = WarnNoteBelow(SourcePatNum(k)))

\* Note byte 36 with pattern transpose 0 and global transpose +12 gives 72, stored
\* as 63 with a warning; the same run also clamps a note to 0 and stores notes that
\* are exactly 0 and 63 after the shift.
C3_Witness ==
    /\ pc = "done"
    /\ args.transpose = 12
    /\ \E k \in 1..Len(used_patterns) : \E r \in 0..31 :
         /\ SourceNote(k, r) = 36 /\ SourceTranspose(k) = 0
         /\ TargetNote(k, r) = 72
         /\ pico8_patterns[k].rows[r + 1][1].note = 63
         /\ \E i \in 1..Len(stdout) : stdout[i] = WarnNoteAbove(SourcePatNum(k))
    /\ \E k \in 1..Len(used_patterns) : \E r \in 0..31 :
         /\ SourceNote(k, r) # 0 /\ TargetNote(k, r) < 0
         /\ pico8_patterns[k].rows[r + 1][1].note = 0
    /\ \E k \in 1..Len(used_patterns) : \E r \in 0..31 :
         /\ SourceNote(k, r) # 0 /\ TargetNote(k, r) \in 1..62
         /\ pico8_patterns[k].rows[r + 1][1].note = TargetNote(k, r)

\* The dedup keys of the in-scope voices in scan order: sequence by sequence,
\* channel 0 to channel 3.
ScanKey(j) == KeyOf(Triple(((j - 1) \div 4) + 1, ((j - 1) % 4) + 1))
ScanLen == 4 * Len(sequences)
FirstSeen(key) == CHOOSE j \in 1..ScanLen :
                     ScanKey(j) = key /\ \A i \in 1..(j - 1) : ScanKey(i) # key
ScanKeys == {ScanKey(j) : j \in 1..ScanLen}

\* C4: the index of a key in used_patterns is the number of distinct keys first
\* seen before it in scan order, no key occurs twice, and the k-th pattern line is
\* the conversion of the k-th key.
C4_FirstSeenOrder ==
    /\ Constructed =>
         /\ \A i \in 1..Len(used_patterns), j \in 1..Len(used_patterns) :
              i # j => used_patterns[i] # used_patterns[j]
         /\ Range(used_patterns) = ScanKeys
         /\ \A i \in 1..Len(used_patterns) :
              i - 1 = Cardinality({FirstSeen(key) : key \in
                         {q \in ScanKeys : FirstSeen(q) < FirstSeen(used_patterns[i])}})
    /\ pc = "done" =>
         /\ Len(PatternLines) = Len(used_patterns)
         /\ \A k \in 1..Len(used_patterns) :
              PatternLines[k] =
                 PatternFormat(ConvertPattern(contents, header, args, used_patterns[k]).pattern)

\* A finished run in which keys repeat across sequences and channels, at least
\* three distinct keys were collected and a key first seen in the second sequence
\* follows all keys of the first.
C4_Witness ==
    /\ pc = "done"
    /\ Len(sequences) >= 2
    /\ Len(used_patterns) >= 3
    /\ Len(used_patterns) < ScanLen
    /\ \E v \in 1..4 : \A w \in 1..4 : Triple(2, v) # Triple(1, w)
    /\ \E v \in 1..4, w \in 1..4 : v < w /\ Triple(1, v) = Triple(1, w)
    /\ Len(PatternLines) = Len(used_patterns)

\* How Python shows a tag in a message ("%s" of a bytes value).
TagRepr(tag) ==
    CASE tag = <<88, 88, 88, 88>> -> "b'XXXX'"
      [] tag = <<83, 77, 79, 69>> -> "b'SMOE'"
      [] tag = <<0, 0, 0, 0>> -> "b'\\x00\\x00\\x00\\x00'"
      [] OTHER -> "b'?'"
UnknownTag == Len(contents) >= 4 /\ Slice(contents, 0, 4) \notin {MagicSMOD, MagicFC14}
\* C5: an unrecognized 4-byte tag aborts the run with a message that names the
\* tag, and no line has been printed.
C5_UnknownTagNamed ==
    (UnknownTag /\ pc # "construct") =>
        /\ pc = "aborted"
        /\ stdout = <<>>
        /\ \E i \in 1..Len(stderr) :
             stderr[i] = "Unknown format: " \o TagRepr(Slice(contents, 0, 4))

\* The number of overflow warnings printed so far.
OverflowWarningCount == Cardinality({i \in 1..Len(stdout) : stdout[i] = WarnTooManyPatterns})

\* C6: with more than 64 distinct dedup keys used_patterns holds them all, one
\* overflow warning is printed, the run goes on into the conversion, a pattern
\* line is rendered for every key, those at index 64 and above included, and
\* sequence lines refer to those indices.
C6_OverflowIsAdvisory ==
    /\ (Constructed /\ Cardinality(ScanKeys) > 64) =>
          /\ Len(used_patterns) = Cardinality(ScanKeys)
          /\ OverflowWarningCount = 1
    /\ Len(used_patterns) > 64 =>
          /\ OverflowWarningCount = 1
          /\ pc = "aborted" => Len(pico8_sequences) = Len(sequences)
          /\ SequencesConverted =>
                \A s \in 1..Len(sequences) : \A v \in 1..4 :
                   Triple(s, v)[1] # 0 =>
                      Slot(s, v) = Some(ListIndex(used_patterns, KeyOf(Triple(s, v))))
          /\ pc = "done" =>
                /\ Len(PatternLines) = Len(used_patterns)
                /\ \A k \in 65..Len(used_patterns) :
                      PatternLines[k] = PatternFormat(pico8_patterns[k])
                /\ \A s \in 1..Len(sequences) :
                      SequenceLines[s] = SequenceFormat(pico8_sequences[s])

\* A finished run with exactly 65 keys: one warning, 65 pattern lines, and the
\* last sequence line names index 64 ("40").
C6_Witness ==
    /\ pc = "done"
    /\ Len(used_patterns) = 65
    /\ OverflowWarningCount = 1
    /\ Len(PatternLines) = 65
    /\ pico8_sequences[Len(sequences)].channels[4] = Some(64)
    /\ SubSeq(SequenceLines[Len(sequences)], 10, 11) = "40"

\* C7: with a recognized tag the run is never aborted.
C7_RecognizedNeverAborts ==
    (Len(contents) >= 4 /\ Slice(contents, 0, 4) \in {MagicSMOD, MagicFC14}) =>
        pc # "aborted"

\* C8: no warning is written to the stream that carries the cartridge text.
C8_NoWarningOnStdout == \A i \in 1..Len(stdout) : ~IsWarning(stdout[i])

\* The sequence count and window of the claim, read from the file and the
\* command line.
SizeField == ((contents[5] * 256 + contents[6]) * 256 + contents[7]) * 256 + contents[8]
WindowIndices ==
    {i \in 0..((SizeField \div 13) - 1) :
        i >= args.start /\ (i <= args.end \/ args.end = -1)}
\* The window index of the j-th in-scope sequence.
WindowIndex(j) == CHOOSE i \in WindowIndices :
                    Cardinality({h \in WindowIndices : h < i}) = j - 1
\* Byte b (0..12) of the 13-byte record of sequence i.
RecordByte(i, b) == contents[(IF magic = MagicFC14 THEN 180 ELSE 100) + 13 * i + b + 1]

\* C9: the working set is exactly the sequences whose index i in 0..n-1 has
\* i >= start and (i <= end or end = -1), in increasing order; only their voices
\* reach used_patterns; one sequence line is printed for each.  (n is read from
\* the size field, so the file holds at least its eight first bytes.)
C9_Window ==
    /\ (Constructed /\ Len(contents) >= 8) =>
         /\ Len(sequences) = Cardinality(WindowIndices)
         /\ \A j \in 1..Len(sequences) :
              /\ sequences[j].speed = RecordByte(WindowIndex(j), 12)
              /\ \A v \in 1..4 :
                   /\ sequences[j].voices[v].num = v - 1
                   /\ Triple(j, v) = <<RecordByte(WindowIndex(j), 3 * (v - 1)),
                                       RecordByte(WindowIndex(j), 3 * (v - 1) + 1),
                                       RecordByte(WindowIndex(j), 3 * (v - 1) + 2)>>
         /\ Range(used_patterns) =
              {KeyOf(<<RecordByte(i, 3 * c), RecordByte(i, 3 * c + 1),
                       RecordByte(i, 3 * c + 2)>>) : i \in WindowIndices, c \in 0..3}
    /\ (pc = "done" /\ Len(contents) >= 8) =>
         /\ Len(SequenceLines) = Cardinality(WindowIndices)
         /\ \A j \in 1..Len(SequenceLines) :
              SequenceLines[j] = SequenceFormat(pico8_sequences[j])

\* A finished run whose window leaves out sequences on both sides.
C9_Witness ==
    /\ pc = "done"
    /\ args.start = 1 /\ args.end = 1
    /\ SizeField \div 13 >= 3
    /\ WindowIndices = {1}
    /\ Len(sequences) = 1
    /\ Len(SequenceLines) = 1
    /\ Triple(1, 1) = <<RecordByte(1, 0), RecordByte(1, 1), RecordByte(1, 2)>>
    /\ Triple(1, 1) # <<RecordByte(0, 0), RecordByte(0, 1), RecordByte(0, 2)>>

\* C10: in the final song every enabled channel holds an index k with
\* 0 <= k < number of converted patterns, and converted pattern k is the one built
\* from that voice's own pattern-number and note-transpose.
C10_IndicesAgree ==
    PatternsConverted =>
        \A s \in 1..Len(sequences) : \A v \in 1..4 :
            Slot(s, v) # None =>
                LET k == Slot(s, v)[1]
                    t == Triple(s, v)
                IN  /\ 0 <= k
                    /\ k < Len(pico8_patterns)
                    /\ pico8_patterns[k + 1] =
                          ConvertPattern(contents, header, args, t[1] + 256 * t[2]).pattern

\* A final song in which one sequence plays two different converted patterns
\* built from the same source pattern with different transposes.
C10_Witness ==
    /\ pc = "done"
    /\ \E s \in 1..Len(sequences) : \E v \in 1..4, w \in 1..4 :
         /\ Slot(s, v) # None /\ Slot(s, w) # None
         /\ Slot(s, v) # Slot(s, w)
         /\ Triple(s, v)[1] = Triple(s, w)[1]
         /\ Triple(s, v)[2] # Triple(s, w)[2]
         /\ pico8_patterns[Slot(s, v)[1] + 1] # pico8_patterns[Slot(s, w)[1] + 1]

====
